---- MODULE Spec2Model ----
(***************************************************************************)
(* A model of rsjail: Jail::run (src/src/jail.rs) driven by a JailConfig   *)
(* (src/src/config.rs).  One run is modelled: the calling process requests *)
(* namespaces, forks, the child builds the jail and execs the target, the  *)
(* parent waits.  Every system call is one step whose outcome (success or  *)
(* the kernel's refusal) is chosen by the environment.                     *)
(***************************************************************************)
EXTENDS Integers, Sequences, FiniteSets, TLC

VARIABLES
    config,      \* the JailConfig held by the Jail (immutable during a run)
    env,         \* the invoking process: its real user and group id and
                 \* its environment variables
    ppc,         \* position of the calling (parent) process in Jail::run
    cpc,         \* position of the forked child in setup_child_environment
    log,         \* every system call issued, in order, with the issuing process
    parentNs,    \* namespace kinds the calling process has newly entered
    childNs,     \* namespace kinds the child was born into
    dirs,        \* directories that exist on the host filesystem
    files,       \* regular files that exist on the host filesystem
    nonEmpty,    \* the regular files that hold data
    mounted,     \* mount targets installed so far, in order
    mountIdx,    \* index of the next entry of config.mounts to set up
    root,        \* the child's root directory
    cred,        \* the child's user and group identity
    rlimits,     \* the child's soft and hard limit per resource
    image,       \* what the child executes: the jail code or the target
    elapsed,     \* wall-clock time the target has been running
    childStatus, \* how the child terminated, once it has
    reported,    \* what the parent printed about the child
    result,      \* what Jail::run returned to its caller in the parent
    json,        \* the external representation serde_json::to_string gave
    parsed       \* the JailConfig serde_json::from_str gave back

vars == <<config, env, ppc, cpc, log, parentNs, childNs, dirs, files, nonEmpty,
          mounted, mountIdx, root, cred, rlimits, image, elapsed, childStatus,
          reported, result, json, parsed>>

-----------------------------------------------------------------------------
(* Bounds of the model *)

MaxMounts == 2      \* longest mount list
MaxRuntime == 2     \* longest observed running time of the target

-----------------------------------------------------------------------------
(* Option<T>: None is the empty sequence, Some(v) the one-element sequence *)

None == <<>>
Some(v) == <<v>>
IsSome(o) == o # <<>>
Unwrap(o) == o[1]

-----------------------------------------------------------------------------
(* Paths are sequences of tokens; the token "/" is the separator, so that  *)
(* string formatting is concatenation and parsing is a separate step.      *)

Sep == "/"

RECURSIVE ComponentsFrom(_, _, _)
ComponentsFrom(p, acc, cur) ==
    IF p = <<>> THEN (IF cur = "" THEN acc ELSE Append(acc, cur))
    ELSE IF Head(p) = Sep
         THEN ComponentsFrom(Tail(p), IF cur = "" THEN acc ELSE Append(acc, cur), "")
         ELSE ComponentsFrom(Tail(p), acc, cur \o Head(p))

\* Path::components: the names between separators, adjacent tokens merged
Components(p) == ComponentsFrom(p, <<>>, "")

\* the working directory of the process while it builds the jail
Cwd == <<>>

RECURSIVE Walk(_, _, _)
\* kernel path resolution of the names comps starting at directory cur:
\* ".." steps to the parent, every directory walked through must exist
Walk(ds, cur, comps) ==
    IF comps = <<>> THEN [ok |-> TRUE, path |-> cur]
    ELSE IF cur \notin ds THEN [ok |-> FALSE, path |-> cur]
    ELSE IF Head(comps) = "." THEN Walk(ds, cur, Tail(comps))
    ELSE IF Head(comps) = ".."
         THEN Walk(ds, IF cur = <<>> THEN cur ELSE SubSeq(cur, 1, Len(cur) - 1),
                   Tail(comps))
         ELSE Walk(ds, Append(cur, Head(comps)), Tail(comps))

Resolve(ds, p) == Walk(ds, Cwd, Components(p))

\* Path::exists, Path::is_file, Path::is_dir
Exists(ds, fs, p) ==
    LET r == Resolve(ds, p) IN r.ok /\ (r.path \in ds \/ r.path \in fs)
IsFile(ds, fs, p) ==
    LET r == Resolve(ds, p) IN r.ok /\ r.path \in fs
IsDir(ds, fs, p) ==
    LET r == Resolve(ds, p) IN r.ok /\ r.path \in ds

\* Path::parent: the path without its final component, None for the root
\* and for the empty path
RECURSIVE StripTrailingSeps(_)
StripTrailingSeps(p) ==
    IF p # <<>> /\ p[Len(p)] = Sep /\ Len(p) > 1
    THEN StripTrailingSeps(SubSeq(p, 1, Len(p) - 1))
    ELSE p

RECURSIVE DropLastName(_)
DropLastName(p) ==
    IF p = <<>> THEN <<>>
    ELSE IF p[Len(p)] = Sep THEN p
    ELSE DropLastName(SubSeq(p, 1, Len(p) - 1))

Parent(p) ==
    LET q == StripTrailingSeps(p) IN
    IF q = <<>> \/ q = <<Sep>> THEN None
    ELSE Some(StripTrailingSeps(DropLastName(q)))

\* Path::join of a relative name
Join(base, name) == base \o <<Sep, name>>

-----------------------------------------------------------------------------
(* The host the jail runs on *)

\* process ids on the host; pid 1 is the host's init
Pids == [init |-> 1, parent |-> 100, child |-> 101]

\* the ids the kernel reports for an id that has no mapping in the caller's
\* user namespace (/proc/sys/kernel/overflowuid, overflowgid)
Overflow == [uid |-> 65534, gid |-> 65534]

\* real user/group identities the invoking process may have
RealIds == {[uid |-> 0, gid |-> 0], [uid |-> 1000, gid |-> 1000]}

\* environment variables the invoking process may carry
UserEnviron == <<"HOME=/home/user">>
Environs == {<<>>, <<"SECRET=token", "PATH=/opt/evil">>, UserEnviron}

\* the invoking processes the runs are started from: root with or without
\* variables of its own, and a user with a home directory
Hosts ==
    {h \in {[uid |-> r.uid, gid |-> r.gid, environ |-> e] : r \in RealIds, e \in Environs} :
        (h.uid = 0) = (h.environ # UserEnviron)}

\* limits the invoking process may start with
InitialRlimit == [soft |-> 3, hard |-> 5]
Resources == {"RLIMIT_AS", "RLIMIT_CPU", "RLIMIT_NOFILE"}

HostRoot == <<>>
HostDirs ==
    {<<>>, <<"bin">>, <<"etc">>, <<"proc">>, <<"tmp">>, <<"tmp", "test">>,
     <<"tmp", "test", "data">>}
HostFiles == {<<"bin", "sh">>, <<"etc", "hosts">>, <<"tmp", "test", "conf">>}

JailCode == "rsjail"

-----------------------------------------------------------------------------
(* JailConfig and MountConfig (src/src/config.rs) *)

BinSh == <<Sep, "bin", Sep, "sh">>
TmpTest == <<Sep, "tmp", Sep, "test">>
Nonexistent == <<Sep, "nonexistent", Sep, "path">>

DefaultConfig ==
    [name |-> "default",
     hostname |-> None,
     chroot_dir |-> None,
     exec_bin |-> BinSh,
     exec_args |-> <<BinSh>>,
     clone_newpid |-> TRUE,
     clone_newnet |-> TRUE,
     clone_newns |-> TRUE,
     clone_newuts |-> TRUE,
     clone_newipc |-> TRUE,
     clone_newuser |-> TRUE,
     rlimit_as |-> None,
     rlimit_cpu |-> None,
     rlimit_nofile |-> None,
     mounts |-> <<>>,
     uid |-> None,
     gid |-> None,
     time_limit |-> None]

MountBin ==
    [src |-> <<Sep, "bin">>, dst |-> <<Sep, "bin">>, fstype |-> None,
     is_bind |-> TRUE, rw |-> FALSE]
MountHosts ==
    [src |-> <<Sep, "etc", Sep, "hosts">>, dst |-> <<Sep, "etc", Sep, "hosts">>,
     fstype |-> None, is_bind |-> TRUE, rw |-> FALSE]
MountProc ==
    [src |-> <<"proc">>, dst |-> <<Sep, "proc">>, fstype |-> Some("proc"),
     is_bind |-> FALSE, rw |-> TRUE]

MountChoices == {MountBin, MountHosts, MountProc}

\* sources that are a regular file, a directory, and missing
MountSources == {<<Sep, "etc", Sep, "hosts">>, <<Sep, "bin">>, <<Sep, "missing">>}

\* destinations that are absent, a regular file and a directory under
\* /tmp/test, one that climbs with "..", and one without a leading separator
MountDestinations ==
    {<<Sep, "new">>, <<Sep, "conf">>, <<Sep, "data">>, <<Sep, "..", Sep, "escape">>,
     <<"escape">>}

DestinationMounts ==
    {[src |-> s, dst |-> d, fstype |-> None, is_bind |-> TRUE, rw |-> FALSE] :
        s \in MountSources, d \in MountDestinations}

SeqsUpTo(S, n) == UNION {[1..k -> S] : k \in 0..n}

MountLists == SeqsUpTo(MountChoices, MaxMounts)

\* the configuration of test_config_serialization, with the limits scaled
FullConfig ==
    [DefaultConfig EXCEPT
        !.name = "test", !.hostname = Some("test-host"),
        !.chroot_dir = Some(TmpTest),
        !.rlimit_as = Some(4), !.rlimit_cpu = Some(2), !.rlimit_nofile = Some(1),
        !.mounts = <<MountBin>>,
        !.uid = Some(1000), !.gid = Some(1000), !.time_limit = Some(1)]

BaseConfigs == {DefaultConfig, FullConfig}

\* configurations that vary the namespace request (net, mount and ipc
\* together) and the hostname
ConfigsNs ==
    {[b EXCEPT !.clone_newpid = f[1], !.clone_newnet = f[2], !.clone_newns = f[2],
               !.clone_newuts = f[3], !.clone_newipc = f[2], !.clone_newuser = f[4],
               !.hostname = h] :
        b \in BaseConfigs, f \in [1..4 -> BOOLEAN], h \in {None, Some("jail")}}

\* configurations that vary the confinement root and the mount list
ConfigsFs ==
    {[b EXCEPT !.chroot_dir = c, !.mounts = m] :
        b \in BaseConfigs, c \in {None, Some(TmpTest), Some(Nonexistent)},
        m \in MountLists}

\* configurations that vary the source and the destination of one mount
ConfigsDst ==
    {[b EXCEPT !.chroot_dir = Some(TmpTest), !.mounts = <<m>>] :
        b \in BaseConfigs, m \in DestinationMounts}

\* configurations that vary the target identity and the resource ceilings
ConfigsPriv ==
    {[b EXCEPT !.uid = u, !.gid = g, !.rlimit_as = as, !.rlimit_cpu = cpu,
               !.rlimit_nofile = nofile, !.clone_newuser = FALSE] :
        b \in BaseConfigs, u \in {None, Some(1000)}, g \in {None, Some(1000)},
        as \in {None, Some(2)}, cpu \in {None, Some(2), Some(7)},
        nofile \in {None, Some(7)}}

\* configurations that vary the target program and the time limit
ConfigsExec ==
    {[b EXCEPT !.exec_bin = e, !.time_limit = t] :
        b \in BaseConfigs, e \in {<<>>, BinSh, Nonexistent},
        t \in {None, Some(1)}}

Configs == ConfigsNs \cup ConfigsFs \cup ConfigsDst \cup ConfigsPriv \cup ConfigsExec

-----------------------------------------------------------------------------
(* Jail::new: the Jail holds the configuration; nothing has run yet *)

Init ==
    /\ config \in Configs
    /\ env \in Hosts
    /\ ppc = "create_namespaces"
    /\ cpc = "none"
    /\ log = <<>>
    /\ parentNs = {}
    /\ childNs = {}
    /\ dirs = HostDirs
    /\ files = HostFiles
    /\ nonEmpty = HostFiles
    /\ mounted = <<>>
    /\ mountIdx = 1
    /\ root = HostRoot
    /\ cred = [uid |-> env.uid, gid |-> env.gid]
    /\ rlimits = [r \in Resources |-> InitialRlimit]
    /\ image = JailCode
    /\ elapsed = 0
    /\ childStatus = None
    /\ reported = None
    /\ result = "pending"
    /\ json = None
    /\ parsed = None

-----------------------------------------------------------------------------
(* The system-call log *)

Ev(proc, op, arg, ok) == [proc |-> proc, op |-> op, arg |-> arg, ok |-> ok]

Logged(evs) == log' = log \o evs

\* the child prints the error and calls std::process::exit(1)
ExitFailure == [kind |-> "exited", code |-> 1]

ChildExits(status) ==
    /\ cpc' = "zombie"
    /\ childStatus' = Some(status)

\* ChildFails with the error dropped: the child carries on to the exec
ChildFailsIgnored ==
    /\ cpc' = "exec"
    /\ UNCHANGED childStatus

\* the stages of the child's pipeline
ChildStages == {"mapping", "hostname", "filesystem", "privilege", "exec"}

\* the stage a step of the child belongs to
StageOf(at) ==
    CASE at \in {"uid_map", "setgroups", "gid_map"} -> "mapping"
      [] at = "hostname" -> "hostname"
      [] at \in {"filesystem", "mount", "chroot", "chdir"} -> "filesystem"
      [] at \in {"setgid", "setuid", "rlimit_as", "rlimit_cpu", "rlimit_nofile"} -> "privilege"
      [] at = "exec" -> "exec"

\* the termination status by which the child reports an error of a stage:
\* every `?` of setup_child_environment ends in the same exit(1)
FailureReport(stage) == ExitFailure

\* Jail::run, child arm: `if let Err(e) = ... { eprintln!(..); exit(1) }`
ChildFails == ChildExits(FailureReport(StageOf(cpc)))

\* NextStep with the privilege drop moved before the filesystem stage
NextStepPrivilegeFirst(at) ==
    CASE at = "uid_map" -> "setgroups"
      [] at = "setgroups" -> "gid_map"
      [] at = "gid_map" -> "hostname"
      [] at = "hostname" -> "setgid"
      [] at = "setgid" -> "setuid"
      [] at = "setuid" -> "filesystem"
      [] at = "filesystem" -> "mount"
      [] at = "mount" -> "chroot"
      [] at = "chroot" -> "chdir"
      [] at = "chdir" -> "rlimit_as"
      [] at = "rlimit_as" -> "rlimit_cpu"
      [] at = "rlimit_cpu" -> "rlimit_nofile"
      [] at = "rlimit_nofile" -> "exec"

\* NextStep with the GID map written before setgroups is denied
NextStepGidMapFirst(at) ==
    CASE at = "uid_map" -> "gid_map"
      [] at = "gid_map" -> "setgroups"
      [] at = "setgroups" -> "hostname"
      [] at = "hostname" -> "filesystem"
      [] at = "filesystem" -> "mount"
      [] at = "mount" -> "chroot"
      [] at = "chroot" -> "chdir"
      [] at = "chdir" -> "setgid"
      [] at = "setgid" -> "setuid"
      [] at = "setuid" -> "rlimit_as"
      [] at = "rlimit_as" -> "rlimit_cpu"
      [] at = "rlimit_cpu" -> "rlimit_nofile"
      [] at = "rlimit_nofile" -> "exec"

\* NextStep with the user identity set before the group identity
NextStepUserFirst(at) ==
    CASE at = "uid_map" -> "setgroups"
      [] at = "setgroups" -> "gid_map"
      [] at = "gid_map" -> "hostname"
      [] at = "hostname" -> "filesystem"
      [] at = "filesystem" -> "mount"
      [] at = "mount" -> "chroot"
      [] at = "chroot" -> "chdir"
      [] at = "chdir" -> "setuid"
      [] at = "setuid" -> "setgid"
      [] at = "setgid" -> "rlimit_as"
      [] at = "rlimit_as" -> "rlimit_cpu"
      [] at = "rlimit_cpu" -> "rlimit_nofile"
      [] at = "rlimit_nofile" -> "exec"

\* the order of the statements of setup_child_environment and of the
\* functions it calls: the step that follows the step `at`
NextStep(at) ==
    CASE at = "uid_map" -> "setgroups"
      [] at = "setgroups" -> "gid_map"
      [] at = "gid_map" -> "hostname"
      [] at = "hostname" -> "filesystem"
      [] at = "filesystem" -> "mount"
      [] at = "mount" -> "chroot"
      [] at = "chroot" -> "chdir"
      [] at = "chdir" -> "setgid"
      [] at = "setgid" -> "setuid"
      [] at = "setuid" -> "rlimit_as"
      [] at = "rlimit_as" -> "rlimit_cpu"
      [] at = "rlimit_cpu" -> "rlimit_nofile"
      [] at = "rlimit_nofile" -> "exec"

-----------------------------------------------------------------------------
(* Jail::create_namespaces, in the calling process *)

\* Flags with the IPC namespace left out
FlagsWithoutIpc(c) ==
    (IF c.clone_newpid THEN {"pid"} ELSE {}) \cup
    (IF c.clone_newnet THEN {"net"} ELSE {}) \cup
    (IF c.clone_newns THEN {"ns"} ELSE {}) \cup
    (IF c.clone_newuts THEN {"uts"} ELSE {}) \cup
    (IF c.clone_newuser THEN {"user"} ELSE {})

Flags(c) ==
    (IF c.clone_newpid THEN {"pid"} ELSE {}) \cup
    (IF c.clone_newnet THEN {"net"} ELSE {}) \cup
    (IF c.clone_newns THEN {"ns"} ELSE {}) \cup
    (IF c.clone_newuts THEN {"uts"} ELSE {}) \cup
    (IF c.clone_newipc THEN {"ipc"} ELSE {}) \cup
    (IF c.clone_newuser THEN {"user"} ELSE {})

\* unshare(2): a new pid namespace takes effect for the children of the
\* caller only, every other kind changes the caller's own membership
Unshared(flags) == flags \ {"pid"}

CreateNamespaces ==
    /\ ppc = "create_namespaces"
    /\ \E ok \in BOOLEAN :
        /\ Logged(<<Ev("parent", "unshare", Flags(config), ok)>>)
        /\ IF ok
           THEN /\ parentNs' = Unshared(Flags(config))
                /\ ppc' = "fork"
                /\ UNCHANGED result
           ELSE /\ ppc' = "returned"
                /\ result' = "Err"
                /\ UNCHANGED parentNs
    /\ UNCHANGED <<config, env, json, parsed, cpc, childNs, dirs, files, nonEmpty, mounted, mountIdx,
                   root, cred, rlimits, image, elapsed, childStatus, reported>>

(* Jail::run: fork *)
Fork ==
    /\ ppc = "fork"
    /\ \E ok \in BOOLEAN :
        /\ Logged(<<Ev("parent", "fork", Pids.child, ok)>>)
        /\ IF ok
           THEN /\ ppc' = "wait"
                /\ cpc' = "uid_map"
                /\ childNs' = Flags(config)
                /\ UNCHANGED result
           ELSE /\ ppc' = "returned"
                /\ result' = "Err"
                /\ UNCHANGED <<cpc, childNs>>
    /\ UNCHANGED <<config, env, json, parsed, parentNs, dirs, files, nonEmpty, mounted, mountIdx,
                   root, cred, rlimits, image, elapsed, childStatus, reported>>

\* WaitForChild that does not block: the status is taken as it is now
WaitForChildNoHang ==
    /\ ppc = "wait"
    /\ \/ /\ Logged(<<Ev("parent", "waitpid", Pids.child, TRUE)>>)
          /\ cpc' = IF cpc = "zombie" THEN "reaped" ELSE cpc
          /\ reported' = childStatus
          /\ result' = "Ok"
       \/ /\ Logged(<<Ev("parent", "waitpid", Pids.child, FALSE)>>)
          /\ result' = "Err"
          /\ UNCHANGED <<cpc, reported>>
    /\ ppc' = "returned"
    /\ UNCHANGED <<config, env, json, parsed, parentNs, childNs, dirs, files, nonEmpty,
                   mounted, mountIdx, root, cred, rlimits, image, elapsed, childStatus>>

(* Jail::wait_for_child: waitpid(child, None) returns once the child has  *)
(* terminated, or fails; every status is printed and Ok(()) is returned   *)
WaitForChild ==
    /\ ppc = "wait"
    /\ \/ /\ cpc = "zombie"
          /\ Logged(<<Ev("parent", "waitpid", Pids.child, TRUE)>>)
          /\ cpc' = "reaped"
          /\ reported' = childStatus
          /\ result' = "Ok"
       \/ /\ Logged(<<Ev("parent", "waitpid", Pids.child, FALSE)>>)
          /\ result' = "Err"
          /\ UNCHANGED <<cpc, reported>>
    /\ ppc' = "returned"
    /\ UNCHANGED <<config, env, json, parsed, parentNs, childNs, dirs, files, nonEmpty, mounted,
                   mountIdx, root, cred, rlimits, image, elapsed, childStatus>>

-----------------------------------------------------------------------------
(* Jail::setup_uid_gid_mapping, in the child *)

\* a map file of the child itself has been written
MapWritten(file) ==
    \E i \in DOMAIN log :
        /\ log[i].op = "write" /\ log[i].ok
        /\ log[i].arg.file = file /\ log[i].arg.pid = Pids.child

\* getpid(): a child born into a new pid namespace is pid 1 there
Getpid == IF "pid" \in childNs THEN Pids.init ELSE Pids.child

\* getuid(), getgid(): an id without a mapping in the caller's user
\* namespace is reported as the overflow id
Getuid == IF "user" \in childNs /\ ~MapWritten("uid_map") THEN Overflow.uid ELSE cred.uid
Getgid == IF "user" \in childNs /\ ~MapWritten("gid_map") THEN Overflow.gid ELSE cred.gid

\* format!("/proc/{}/<file>", pid), opened for writing, then write_all(data)
WriteProcFile(pid, file, data, outcome) ==
    IF outcome = "open_failed"
    THEN <<Ev("child", "open", [pid |-> pid, file |-> file], FALSE)>>
    ELSE <<Ev("child", "open", [pid |-> pid, file |-> file], TRUE),
           Ev("child", "write", [pid |-> pid, file |-> file, data |-> data],
              outcome = "ok")>>

WriteOutcomes == {"ok", "open_failed", "write_failed"}

ChildFrame == <<config, env, ppc, parentNs, childNs, reported, result, json, parsed>>

SetupUidMap ==
    /\ cpc = "uid_map"
    /\ IF config.clone_newuser
       THEN \E outcome \in WriteOutcomes :
            /\ Logged(WriteProcFile(Getpid, "uid_map", <<0, Getuid, 1>>, outcome))
            /\ IF outcome = "ok"
               THEN cpc' = NextStep("uid_map") /\ UNCHANGED childStatus
               ELSE ChildFails
       ELSE /\ cpc' = NextStep("gid_map")
            /\ UNCHANGED <<log, childStatus>>
    /\ UNCHANGED <<dirs, files, nonEmpty, mounted, mountIdx, root, cred, rlimits, image, elapsed>>
    /\ UNCHANGED ChildFrame

SetupSetgroups ==
    /\ cpc = "setgroups"
    /\ \E outcome \in WriteOutcomes :
        /\ Logged(WriteProcFile(Getpid, "setgroups", "deny", outcome))
        /\ IF outcome = "ok"
           THEN cpc' = NextStep("setgroups") /\ UNCHANGED childStatus
           ELSE ChildFails
    /\ UNCHANGED <<dirs, files, nonEmpty, mounted, mountIdx, root, cred, rlimits, image, elapsed>>
    /\ UNCHANGED ChildFrame

SetupGidMap ==
    /\ cpc = "gid_map"
    /\ \E outcome \in WriteOutcomes :
        /\ Logged(WriteProcFile(Getpid, "gid_map", <<0, Getgid, 1>>, outcome))
        /\ IF outcome = "ok"
           THEN cpc' = NextStep("gid_map") /\ UNCHANGED childStatus
           ELSE ChildFails
    /\ UNCHANGED <<dirs, files, nonEmpty, mounted, mountIdx, root, cred, rlimits, image, elapsed>>
    /\ UNCHANGED ChildFrame

(* setup_child_environment: sethostname *)
SetupHostname ==
    /\ cpc = "hostname"
    /\ IF IsSome(config.hostname)
       THEN \E ok \in BOOLEAN :
            /\ Logged(<<Ev("child", "sethostname", Unwrap(config.hostname), ok)>>)
            /\ IF ok
               THEN cpc' = NextStep("hostname") /\ UNCHANGED childStatus
               ELSE ChildFails
       ELSE /\ cpc' = NextStep("hostname")
            /\ UNCHANGED <<log, childStatus>>
    /\ UNCHANGED <<dirs, files, nonEmpty, mounted, mountIdx, root, cred, rlimits, image, elapsed>>
    /\ UNCHANGED ChildFrame

-----------------------------------------------------------------------------
(* std::fs on the host filesystem *)

\* mkdir(2) of path p: "ok" and the directory made, or the kernel's errno
Mkdir(ds, fs, p) ==
    LET comps == Components(p)
        n == Len(comps)
        par == Walk(ds, Cwd, SubSeq(comps, 1, n - 1))
        target == Append(par.path, comps[n])
    IN  IF n = 0 THEN [err |-> "EEXIST", dirs |-> ds]
        ELSE IF ~par.ok \/ par.path \notin ds
             THEN [err |-> IF par.path \in fs THEN "ENOTDIR" ELSE "ENOENT", dirs |-> ds]
        ELSE IF comps[n] \in {".", ".."} THEN [err |-> "EEXIST", dirs |-> ds]
        ELSE IF target \in ds \/ target \in fs THEN [err |-> "EEXIST", dirs |-> ds]
        ELSE [err |-> "ok", dirs |-> ds \cup {target}]

RECURSIVE MkdirAll(_, _, _)
\* std::fs::create_dir_all: make the directory, after its missing ancestors
MkdirAll(ds, fs, p) ==
    LET first == Mkdir(ds, fs, p) IN
    IF p = <<>> THEN [ok |-> TRUE, dirs |-> ds]
    ELSE IF first.err = "ok" THEN [ok |-> TRUE, dirs |-> first.dirs]
    ELSE IF first.err # "ENOENT" THEN [ok |-> IsDir(ds, fs, p), dirs |-> ds]
    ELSE IF ~IsSome(Parent(p)) THEN [ok |-> FALSE, dirs |-> ds]
    ELSE LET up == MkdirAll(ds, fs, Unwrap(Parent(p))) IN
         IF ~up.ok THEN up
         ELSE LET again == Mkdir(up.dirs, fs, p) IN
              IF again.err = "ok" THEN [ok |-> TRUE, dirs |-> again.dirs]
              ELSE [ok |-> IsDir(up.dirs, fs, p), dirs |-> up.dirs]

\* std::fs::File::create: create the file, or truncate the file that exists
FileCreate(ds, fs, p) ==
    LET comps == Components(p)
        n == Len(comps)
        par == Walk(ds, Cwd, SubSeq(comps, 1, n - 1))
        target == Append(par.path, comps[n])
    IN  IF n = 0 \/ ~par.ok \/ par.path \notin ds THEN [ok |-> FALSE, files |-> fs]
        ELSE IF comps[n] \in {".", ".."} \/ target \in ds THEN [ok |-> FALSE, files |-> fs]
        ELSE [ok |-> TRUE, files |-> fs \cup {target}]

\* File::create leaves the file it opened empty
Truncated(ne, ds, p) == ne \ {Resolve(ds, p).path}

-----------------------------------------------------------------------------
(* Jail::create_jail_directories *)

\* AfterMounts with the loop left after its first round
AfterMountsOnce(c, idx) ==
    IF idx > 1 \/ c.mounts = <<>> THEN NextStep("mount") ELSE NextStep("filesystem")

\* setup_filesystem: `for mount_config in &self.config.mounts`, then the
\* root switch: the step taken when entry number idx is the next one
AfterMounts(c, idx) ==
    IF idx > Len(c.mounts) THEN NextStep("mount") ELSE NextStep("filesystem")

SkeletonDirs == <<"bin", "lib", "lib64", "usr", "etc", "tmp", "proc", "dev", "sys">>

\* the paths the function looks at, in order: the base, then each joined name
SkeletonPaths(base) ==
    <<base>> \o [i \in 1..Len(SkeletonDirs) |-> Join(base, SkeletonDirs[i])]

RECURSIVE CreateDirsFrom(_, _, _, _, _, _)
\* for each path from index i on: if it does not exist, create_dir_all it.
\* failAt is the number of the create_dir_all call the host refuses (0: none)
CreateDirsFrom(ds, fs, paths, i, failAt, evs) ==
    IF i > Len(paths) THEN [ok |-> TRUE, dirs |-> ds, evs |-> evs]
    ELSE IF Exists(ds, fs, paths[i])
         THEN CreateDirsFrom(ds, fs, paths, i + 1, failAt, evs)
    ELSE LET made == MkdirAll(ds, fs, paths[i])
             refused == (failAt = 1) \/ ~made.ok
             ev == Ev("child", "create_dir_all", paths[i], ~refused)
         IN  IF refused
             THEN [ok |-> FALSE, dirs |-> ds, evs |-> Append(evs, ev)]
             ELSE CreateDirsFrom(made.dirs, fs, paths, i + 1,
                                 IF failAt = 0 THEN 0 ELSE failAt - 1,
                                 Append(evs, ev))

\* CreateJailDirectories that takes a missing chroot_dir for the empty path
\* and builds the skeleton in the working directory
CreateJailDirectoriesUnconfined ==
    /\ cpc = "filesystem"
    /\ \E failAt \in 0..(Len(SkeletonDirs) + 1) :
        LET base == IF IsSome(config.chroot_dir) THEN Unwrap(config.chroot_dir) ELSE <<>>
            r == CreateDirsFrom(dirs, files, SkeletonPaths(base), 1, failAt, <<>>)
        IN  /\ failAt > 0 => ~r.ok
            /\ Logged(r.evs)
            /\ dirs' = r.dirs
            /\ IF r.ok
               THEN /\ cpc' = IF IsSome(config.chroot_dir) THEN AfterMounts(config, 1)
                               ELSE NextStep("chdir")
                    /\ UNCHANGED childStatus
               ELSE ChildFails
    /\ UNCHANGED <<files, nonEmpty, mounted, mountIdx, root, cred, rlimits, image, elapsed>>
    /\ UNCHANGED ChildFrame

CreateJailDirectories ==
    /\ cpc = "filesystem"
    /\ IF IsSome(config.chroot_dir)
       THEN \E failAt \in 0..(Len(SkeletonDirs) + 1) :
            LET r == CreateDirsFrom(dirs, files, SkeletonPaths(Unwrap(config.chroot_dir)),
                                    1, failAt, <<>>)
            IN  /\ failAt > 0 => ~r.ok
                /\ Logged(r.evs)
                /\ dirs' = r.dirs
                /\ IF r.ok
                   THEN /\ cpc' = AfterMounts(config, 1)
                        /\ UNCHANGED childStatus
                   ELSE ChildFails
       ELSE /\ cpc' = NextStep("chdir")
            /\ UNCHANGED <<log, dirs, childStatus>>
    /\ UNCHANGED <<files, nonEmpty, mounted, mountIdx, root, cred, rlimits, image, elapsed>>
    /\ UNCHANGED ChildFrame

-----------------------------------------------------------------------------
(* Jail::setup_mount, for the entry config.mounts[mountIdx] *)

MsFlags(m) ==
    (IF m.is_bind THEN {"MS_BIND"} ELSE {}) \cup
    (IF ~m.rw THEN {"MS_RDONLY"} ELSE {})

\* format!("{}{}", chroot_dir, mount_config.dst)
MountTarget(chroot_dir, m) == chroot_dir \o m.dst

MountFailures == {"none", "parent", "destination", "mount"}

SetupMount ==
    /\ cpc = "mount"
    /\ mountIdx <= Len(config.mounts)
    /\ \E refuse \in MountFailures :
        LET m == config.mounts[mountIdx]
            target == MountTarget(Unwrap(config.chroot_dir), m)
            par == Parent(target)
            up == IF IsSome(par) THEN MkdirAll(dirs, files, Unwrap(par))
                  ELSE [ok |-> TRUE, dirs |-> dirs]
            upOk == up.ok /\ refuse # "parent"
            upEvs == IF IsSome(par)
                     THEN <<Ev("child", "create_dir_all", Unwrap(par), upOk)>>
                     ELSE <<>>
            srcIsFile == IsFile(up.dirs, files, m.src)
            needDir == ~srcIsFile /\ ~Exists(up.dirs, files, target)
            mkFile == FileCreate(up.dirs, files, target)
            mkDir == MkdirAll(up.dirs, files, target)
            dstOk == /\ refuse # "destination"
                     /\ srcIsFile => mkFile.ok
                     /\ needDir => mkDir.ok
            dstEvs == IF srcIsFile THEN <<Ev("child", "File::create", target, dstOk)>>
                      ELSE IF needDir THEN <<Ev("child", "create_dir_all", target, dstOk)>>
                      ELSE <<>>
            call == [src |-> m.src, target |-> target, fstype |-> m.fstype,
                     flags |-> MsFlags(m)]
            mountOk == refuse # "mount"
        IN  /\ refuse = "parent" => IsSome(par)
            /\ refuse = "destination" => (srcIsFile \/ needDir)
            /\ IF ~upOk
               THEN /\ Logged(upEvs)
                    /\ ChildFails
                    /\ UNCHANGED <<dirs, files, nonEmpty, mounted, mountIdx>>
               ELSE IF ~dstOk
               THEN /\ Logged(upEvs \o dstEvs)
                    /\ dirs' = up.dirs
                    /\ ChildFails
                    /\ UNCHANGED <<files, nonEmpty, mounted, mountIdx>>
               ELSE /\ Logged(upEvs \o dstEvs \o <<Ev("child", "mount", call, mountOk)>>)
                    /\ dirs' = IF needDir THEN mkDir.dirs ELSE up.dirs
                    /\ files' = IF srcIsFile THEN mkFile.files ELSE files
                    /\ nonEmpty' = IF srcIsFile THEN Truncated(nonEmpty, up.dirs, target)
                                   ELSE nonEmpty
                    /\ IF mountOk
                       THEN /\ mounted' = Append(mounted, call)
                            /\ mountIdx' = mountIdx + 1
                            /\ cpc' = AfterMounts(config, mountIdx + 1)
                            /\ UNCHANGED childStatus
                       ELSE /\ ChildFails
                            /\ UNCHANGED <<mounted, mountIdx>>
    /\ UNCHANGED <<root, cred, rlimits, image, elapsed>>
    /\ UNCHANGED ChildFrame

(* Jail::setup_filesystem: chroot(chroot_dir), then set_current_dir("/") *)
Chroot ==
    /\ cpc = "chroot"
    /\ \E ok \in BOOLEAN :
        LET dir == Unwrap(config.chroot_dir)
            done == ok /\ IsDir(dirs, files, dir)
        IN  /\ Logged(<<Ev("child", "chroot", dir, done)>>)
            /\ IF done
               THEN /\ root' = Resolve(dirs, dir).path
                    /\ cpc' = NextStep("chroot")
                    /\ UNCHANGED childStatus
               ELSE /\ ChildFails
                    /\ UNCHANGED root
    /\ UNCHANGED <<dirs, files, nonEmpty, mounted, mountIdx, cred, rlimits, image, elapsed>>
    /\ UNCHANGED ChildFrame

Chdir ==
    /\ cpc = "chdir"
    /\ \E ok \in BOOLEAN :
        /\ Logged(<<Ev("child", "chdir", <<Sep>>, ok)>>)
        /\ IF ok
           THEN cpc' = NextStep("chdir") /\ UNCHANGED childStatus
           ELSE ChildFails
    /\ UNCHANGED <<dirs, files, nonEmpty, mounted, mountIdx, root, cred, rlimits, image, elapsed>>
    /\ UNCHANGED ChildFrame

-----------------------------------------------------------------------------
(* Jail::setup_user_permissions *)

SetGid ==
    /\ cpc = "setgid"
    /\ IF IsSome(config.gid)
       THEN \E ok \in BOOLEAN :
            /\ Logged(<<Ev("child", "setgid", Unwrap(config.gid), ok)>>)
            /\ IF ok
               THEN /\ cred' = [cred EXCEPT !.gid = Unwrap(config.gid)]
                    /\ cpc' = NextStep("setgid")
                    /\ UNCHANGED childStatus
               ELSE /\ ChildFails
                    /\ UNCHANGED cred
       ELSE /\ cpc' = NextStep("setgid")
            /\ UNCHANGED <<log, cred, childStatus>>
    /\ UNCHANGED <<dirs, files, nonEmpty, mounted, mountIdx, root, rlimits, image, elapsed>>
    /\ UNCHANGED ChildFrame

SetUid ==
    /\ cpc = "setuid"
    /\ IF IsSome(config.uid)
       THEN \E ok \in BOOLEAN :
            /\ Logged(<<Ev("child", "setuid", Unwrap(config.uid), ok)>>)
            /\ IF ok
               THEN /\ cred' = [cred EXCEPT !.uid = Unwrap(config.uid)]
                    /\ cpc' = NextStep("setuid")
                    /\ UNCHANGED childStatus
               ELSE /\ ChildFails
                    /\ UNCHANGED cred
       ELSE /\ cpc' = NextStep("setuid")
            /\ UNCHANGED <<log, cred, childStatus>>
    /\ UNCHANGED <<dirs, files, nonEmpty, mounted, mountIdx, root, rlimits, image, elapsed>>
    /\ UNCHANGED ChildFrame

-----------------------------------------------------------------------------
(* Jail::setup_resource_limits *)

\* Setrlimit that lowers the soft limit only and keeps the hard limit
SetrlimitSoftOnly(limits, resource, soft, hard) ==
    [limits EXCEPT ![resource] = [soft |-> soft, hard |-> limits[resource].hard]]

\* setrlimit(resource, soft, hard) once the kernel has accepted it
Setrlimit(limits, resource, soft, hard) ==
    [limits EXCEPT ![resource] = [soft |-> soft, hard |-> hard]]

\* one `if let Some(limit) = ... { setrlimit(resource, limit, limit)?; }`
ApplyCeiling(at, resource, ceiling) ==
    /\ cpc = at
    /\ IF IsSome(ceiling)
       THEN \E ok \in BOOLEAN :
            /\ Logged(<<Ev("child", "setrlimit",
                           [resource |-> resource, soft |-> Unwrap(ceiling),
                            hard |-> Unwrap(ceiling)], ok)>>)
            /\ IF ok
               THEN /\ rlimits' = Setrlimit(rlimits, resource, Unwrap(ceiling),
                                            Unwrap(ceiling))
                    /\ cpc' = NextStep(at)
                    /\ UNCHANGED childStatus
               ELSE /\ ChildFails
                    /\ UNCHANGED rlimits
       ELSE /\ cpc' = NextStep(at)
            /\ UNCHANGED <<log, rlimits, childStatus>>
    /\ UNCHANGED <<dirs, files, nonEmpty, mounted, mountIdx, root, cred, image, elapsed>>
    /\ UNCHANGED ChildFrame

SetRlimitAs == ApplyCeiling("rlimit_as", "RLIMIT_AS", config.rlimit_as)
SetRlimitCpu == ApplyCeiling("rlimit_cpu", "RLIMIT_CPU", config.rlimit_cpu)
SetRlimitNofile == ApplyCeiling("rlimit_nofile", "RLIMIT_NOFILE", config.rlimit_nofile)

-----------------------------------------------------------------------------
(* Jail::exec_target_program *)

JailEnv == <<"PATH=/bin:/usr/bin:/sbin:/usr/sbin", "HOME=/", "USER=jail">>

\* ExecEnv that hands the invoker's variables on, as std::env::vars would
ExecEnvInherited(environ) == environ \o JailEnv

\* the `env` vector passed to execve by a process whose own environment
\* is environ
ExecEnv(environ) == JailEnv

\* execve(2) can only succeed on a path that names a file; under the host
\* root the file must be one of the host's
Executable(path) ==
    /\ path # <<>>
    /\ root = HostRoot => IsFile(dirs, files, path)

ExecTargetProgram ==
    /\ cpc = "exec"
    /\ \E ok \in BOOLEAN :
        LET call == [program |-> config.exec_bin, args |-> config.exec_args,
                     env |-> ExecEnv(env.environ)]
            done == ok /\ Executable(config.exec_bin)
        IN  /\ Logged(<<Ev("child", "execve", call, done)>>)
            /\ IF done
               THEN /\ image' = config.exec_bin
                    /\ cpc' = "running"
                    /\ UNCHANGED childStatus
               ELSE /\ ChildFails
                    /\ UNCHANGED image
    /\ UNCHANGED <<dirs, files, nonEmpty, mounted, mountIdx, root, cred, rlimits, elapsed>>
    /\ UNCHANGED ChildFrame

-----------------------------------------------------------------------------
(* The target program, once it has replaced the child's image *)

TargetStatuses ==
    {[kind |-> "exited", code |-> 0], [kind |-> "exited", code |-> 1],
     [kind |-> "signaled", signal |-> "SIGSEGV"]}

\* one unit of wall-clock time passes while the target runs
Tick ==
    /\ cpc = "running"
    /\ elapsed < MaxRuntime
    /\ elapsed' = elapsed + 1
    /\ UNCHANGED <<cpc, log, dirs, files, nonEmpty, mounted, mountIdx, root, cred,
                   rlimits,
                   image, childStatus>>
    /\ UNCHANGED ChildFrame

\* the target terminates by itself
TargetExits ==
    /\ cpc = "running"
    /\ \E status \in TargetStatuses : ChildExits(status)
    /\ UNCHANGED <<log, dirs, files, nonEmpty, mounted, mountIdx, root, cred, rlimits,
                   image, elapsed>>
    /\ UNCHANGED ChildFrame

-----------------------------------------------------------------------------

Next ==
    \/ CreateNamespaces
    \/ Fork
    \/ WaitForChild
    \/ SetupUidMap
    \/ SetupSetgroups
    \/ SetupGidMap
    \/ SetupHostname
    \/ CreateJailDirectories
    \/ SetupMount
    \/ Chroot
    \/ Chdir
    \/ SetGid
    \/ SetUid
    \/ SetRlimitAs
    \/ SetRlimitCpu
    \/ SetRlimitNofile
    \/ ExecTargetProgram
    \/ Tick
    \/ TargetExits

Spec == Init /\ [][Next]_vars

-----------------------------------------------------------------------------
(* The external representation of a JailConfig: serde_json::to_string on  *)
(* the derived Serialize, serde_json::from_str on the derived Deserialize. *)
(* A text is a sequence of chunks of characters; the characters with a    *)
(* meaning in JSON are chunks of their own.                               *)

Quote == "\""
Backslash == "\\"
DigitChars == <<"0", "1", "2", "3", "4", "5", "6", "7", "8", "9">>

\* a String of the configuration as chunks, and back
ToChunks(str) == IF str = "" THEN <<>> ELSE <<str>>

RECURSIVE FromChunks(_)
FromChunks(chunks) ==
    IF chunks = <<>> THEN "" ELSE Head(chunks) \o FromChunks(Tail(chunks))

RECURSIVE Escape(_)
\* the content of a JSON string: quote and backslash get a backslash
Escape(chunks) ==
    IF chunks = <<>> THEN <<>>
    ELSE (IF Head(chunks) \in {Quote, Backslash}
          THEN <<Backslash, Head(chunks)>> ELSE <<Head(chunks)>>)
         \o Escape(Tail(chunks))

SerStr(chunks) == <<Quote>> \o Escape(chunks) \o <<Quote>>

RECURSIVE Digits(_)
\* the decimal digits of an unsigned number
Digits(n) ==
    IF n < 10 THEN <<DigitChars[n + 1]>>
    ELSE Append(Digits(n \div 10), DigitChars[(n % 10) + 1])

SerNum(n) == Digits(n)
SerBool(b) == <<IF b THEN "true" ELSE "false">>

RECURSIVE SerElems(_, _)
\* the texts of the elements from the i-th on, a comma between two
SerElems(texts, i) ==
    IF i > Len(texts) THEN <<>>
    ELSE (IF i > 1 THEN <<",">> ELSE <<>>) \o texts[i] \o SerElems(texts, i + 1)

\* an array from the texts of its elements
SerSeq(texts) == <<"[">> \o SerElems(texts, 1) \o <<"]">>

\* one member of an object: "key":value
Member(key, value) == SerStr(<<key>>) \o <<":">> \o value

SerName(str) == SerStr(ToChunks(str))

\* an Option is its value, or null when absent
SerOptName(o) == IF IsSome(o) THEN SerName(Unwrap(o)) ELSE <<"null">>
SerOptStr(o) == IF IsSome(o) THEN SerStr(Unwrap(o)) ELSE <<"null">>
SerOptNum(o) == IF IsSome(o) THEN SerNum(Unwrap(o)) ELSE <<"null">>

\* #[derive(Serialize)] struct MountConfig
SerMount(m) ==
    <<"{">> \o Member("src", SerStr(m.src))
    \o <<",">> \o Member("dst", SerStr(m.dst))
    \o <<",">> \o Member("fstype", SerOptName(m.fstype))
    \o <<",">> \o Member("is_bind", SerBool(m.is_bind))
    \o <<",">> \o Member("rw", SerBool(m.rw))
    \o <<"}">>

\* #[derive(Serialize)] struct JailConfig
SerConfig(c) ==
    <<"{">> \o Member("name", SerName(c.name))
    \o <<",">> \o Member("hostname", SerOptName(c.hostname))
    \o <<",">> \o Member("chroot_dir", SerOptStr(c.chroot_dir))
    \o <<",">> \o Member("exec_bin", SerStr(c.exec_bin))
    \o <<",">> \o Member("exec_args", SerSeq([i \in DOMAIN c.exec_args |-> SerStr(c.exec_args[i])]))
    \o <<",">> \o Member("clone_newpid", SerBool(c.clone_newpid))
    \o <<",">> \o Member("clone_newnet", SerBool(c.clone_newnet))
    \o <<",">> \o Member("clone_newns", SerBool(c.clone_newns))
    \o <<",">> \o Member("clone_newuts", SerBool(c.clone_newuts))
    \o <<",">> \o Member("clone_newipc", SerBool(c.clone_newipc))
    \o <<",">> \o Member("clone_newuser", SerBool(c.clone_newuser))
    \o <<",">> \o Member("rlimit_as", SerOptNum(c.rlimit_as))
    \o <<",">> \o Member("rlimit_cpu", SerOptNum(c.rlimit_cpu))
    \o <<",">> \o Member("rlimit_nofile", SerOptNum(c.rlimit_nofile))
    \o <<",">> \o Member("mounts", SerSeq([i \in DOMAIN c.mounts |-> SerMount(c.mounts[i])]))
    \o <<",">> \o Member("uid", SerOptNum(c.uid))
    \o <<",">> \o Member("gid", SerOptNum(c.gid))
    \o <<",">> \o Member("time_limit", SerOptNum(c.time_limit))
    \o <<"}">>

(* Parsing a text into a JSON value *)

\* the chunk at position i, the empty chunk past the end
At(t, i) == IF i <= Len(t) THEN t[i] ELSE ""

JNull == [t |-> "null"]
ParseError == [ok |-> FALSE, val |-> JNull, next |-> 0]
Parsed(val, next) == [ok |-> TRUE, val |-> val, next |-> next]

DigitValue(c) == (CHOOSE d \in DOMAIN DigitChars : DigitChars[d] = c) - 1
IsDigit(c) == \E d \in DOMAIN DigitChars : DigitChars[d] = c

RECURSIVE ScanString(_, _, _)
\* the content of a string, from the chunk after the opening quote
ScanString(t, i, acc) ==
    LET c == At(t, i) IN
    IF c = "" THEN ParseError
    ELSE IF c = Quote THEN Parsed([t |-> "str", v |-> acc], i + 1)
    ELSE IF c = Backslash
         THEN IF At(t, i + 1) \in {Quote, Backslash}
              THEN ScanString(t, i + 2, Append(acc, At(t, i + 1)))
              ELSE ParseError
    ELSE ScanString(t, i + 1, Append(acc, c))

RECURSIVE ScanNumber(_, _, _)
ScanNumber(t, i, n) ==
    IF IsDigit(At(t, i)) THEN ScanNumber(t, i + 1, n * 10 + DigitValue(At(t, i)))
    ELSE Parsed([t |-> "num", v |-> n], i)

RECURSIVE ParseValue(_, _)
RECURSIVE ParseElems(_, _, _)
RECURSIVE ParseMembers(_, _, _)

ParseValue(t, i) ==
    LET c == At(t, i) IN
    IF c = "null" THEN Parsed(JNull, i + 1)
    ELSE IF c = "true" THEN Parsed([t |-> "bool", v |-> TRUE], i + 1)
    ELSE IF c = "false" THEN Parsed([t |-> "bool", v |-> FALSE], i + 1)
    ELSE IF c = Quote THEN ScanString(t, i + 1, <<>>)
    ELSE IF IsDigit(c) THEN ScanNumber(t, i, 0)
    ELSE IF c = "["
         THEN IF At(t, i + 1) = "]" THEN Parsed([t |-> "arr", v |-> <<>>], i + 2)
              ELSE ParseElems(t, i + 1, <<>>)
    ELSE IF c = "{"
         THEN IF At(t, i + 1) = "}" THEN Parsed([t |-> "obj", v |-> <<>>], i + 2)
              ELSE ParseMembers(t, i + 1, <<>>)
    ELSE ParseError

\* the elements of an array, from an element on
ParseElems(t, i, acc) ==
    LET e == ParseValue(t, i) IN
    IF ~e.ok THEN ParseError
    ELSE IF At(t, e.next) = "," THEN ParseElems(t, e.next + 1, Append(acc, e.val))
    ELSE IF At(t, e.next) = "]"
         THEN Parsed([t |-> "arr", v |-> Append(acc, e.val)], e.next + 1)
    ELSE ParseError

\* the members of an object, from a key on
ParseMembers(t, i, acc) ==
    LET k == IF At(t, i) = Quote THEN ScanString(t, i + 1, <<>>) ELSE ParseError
        e == IF k.ok /\ At(t, k.next) = ":" THEN ParseValue(t, k.next + 1) ELSE ParseError
        member == <<k.val.v, e.val>>
    IN  IF ~e.ok THEN ParseError
        ELSE IF At(t, e.next) = "," THEN ParseMembers(t, e.next + 1, Append(acc, member))
        ELSE IF At(t, e.next) = "}"
             THEN Parsed([t |-> "obj", v |-> Append(acc, member)], e.next + 1)
        ELSE ParseError

\* a whole text is one value and nothing after it
ParseText(t) ==
    LET r == ParseValue(t, 1) IN
    IF r.ok /\ r.next = Len(t) + 1 THEN r ELSE ParseError

(* Deserialize: from a JSON value to the typed value *)

De(ok, val) == [ok |-> ok, val |-> val]

DeStr(v) == IF v.t = "str" THEN De(TRUE, v.v) ELSE De(FALSE, <<>>)
DeName(v) == IF v.t = "str" THEN De(TRUE, FromChunks(v.v)) ELSE De(FALSE, "")
DeBool(v) == IF v.t = "bool" THEN De(TRUE, v.v) ELSE De(FALSE, FALSE)
DeNum(v) == IF v.t = "num" THEN De(TRUE, v.v) ELSE De(FALSE, 0)
\* a present Option from the reading of its value
DeSome(r) == De(r.ok, Some(r.val))
\* a Vec from the readings of its elements
DeAll(rs) == De(\A i \in DOMAIN rs : rs[i].ok, [i \in DOMAIN rs |-> rs[i].val])
DeOptName(v) == IF v.t = "null" THEN De(TRUE, None) ELSE DeSome(DeName(v))
DeOptStr(v) == IF v.t = "null" THEN De(TRUE, None) ELSE DeSome(DeStr(v))
DeOptNum(v) == IF v.t = "null" THEN De(TRUE, None) ELSE DeSome(DeNum(v))
DeArgs(v) ==
    IF v.t = "arr" THEN DeAll([i \in DOMAIN v.v |-> DeStr(v.v[i])]) ELSE De(FALSE, <<>>)

\* the values of the members named key; a field that is missing reads as
\* null, which only an Option accepts, and a field given twice is an error
Field(members, key) ==
    LET at == {i \in DOMAIN members : members[i][1] = <<key>>} IN
    IF at = {} THEN JNull
    ELSE IF Cardinality(at) = 1 THEN members[CHOOSE i \in at : TRUE][2]
    ELSE [t |-> "duplicate"]

\* DeMount with the keys of the two paths mixed up
DeMountSwapped(v) ==
    IF v.t # "obj" THEN De(FALSE, <<>>)
    ELSE LET src == DeStr(Field(v.v, "dst"))
             dst == DeStr(Field(v.v, "src"))
             fstype == DeOptName(Field(v.v, "fstype"))
             is_bind == DeBool(Field(v.v, "is_bind"))
             rw == DeBool(Field(v.v, "rw"))
         IN  De(src.ok /\ dst.ok /\ fstype.ok /\ is_bind.ok /\ rw.ok,
                [src |-> src.val, dst |-> dst.val, fstype |-> fstype.val,
                 is_bind |-> is_bind.val, rw |-> rw.val])

\* #[derive(Deserialize)] struct MountConfig
DeMount(v) ==
    IF v.t # "obj" THEN De(FALSE, <<>>)
    ELSE LET src == DeStr(Field(v.v, "src"))
             dst == DeStr(Field(v.v, "dst"))
             fstype == DeOptName(Field(v.v, "fstype"))
             is_bind == DeBool(Field(v.v, "is_bind"))
             rw == DeBool(Field(v.v, "rw"))
         IN  De(src.ok /\ dst.ok /\ fstype.ok /\ is_bind.ok /\ rw.ok,
                [src |-> src.val, dst |-> dst.val, fstype |-> fstype.val,
                 is_bind |-> is_bind.val, rw |-> rw.val])

DeMounts(v) ==
    IF v.t = "arr" THEN DeAll([i \in DOMAIN v.v |-> DeMount(v.v[i])]) ELSE De(FALSE, <<>>)

ConfigFields ==
    <<"name", "hostname", "chroot_dir", "exec_bin", "exec_args", "clone_newpid",
      "clone_newnet", "clone_newns", "clone_newuts", "clone_newipc", "clone_newuser",
      "rlimit_as", "rlimit_cpu", "rlimit_nofile", "mounts", "uid", "gid", "time_limit">>

\* the field `key` of a JailConfig read from the members of an object
DeField(members, key) ==
    LET v == Field(members, key) IN
    CASE key = "name" -> DeName(v)
      [] key = "hostname" -> DeOptName(v)
      [] key = "chroot_dir" -> DeOptStr(v)
      [] key = "exec_bin" -> DeStr(v)
      [] key = "exec_args" -> DeArgs(v)
      [] key \in {"clone_newpid", "clone_newnet", "clone_newns", "clone_newuts",
                  "clone_newipc", "clone_newuser"} -> DeBool(v)
      [] key \in {"rlimit_as", "rlimit_cpu", "rlimit_nofile", "uid", "gid",
                  "time_limit"} -> DeOptNum(v)
      [] key = "mounts" -> DeMounts(v)

\* #[derive(Deserialize)] struct JailConfig
DeConfig(v) ==
    IF v.t # "obj" THEN De(FALSE, <<>>)
    ELSE De(\A i \in DOMAIN ConfigFields : DeField(v.v, ConfigFields[i]).ok,
            [name |-> DeField(v.v, "name").val,
             hostname |-> DeField(v.v, "hostname").val,
             chroot_dir |-> DeField(v.v, "chroot_dir").val,
             exec_bin |-> DeField(v.v, "exec_bin").val,
             exec_args |-> DeField(v.v, "exec_args").val,
             clone_newpid |-> DeField(v.v, "clone_newpid").val,
             clone_newnet |-> DeField(v.v, "clone_newnet").val,
             clone_newns |-> DeField(v.v, "clone_newns").val,
             clone_newuts |-> DeField(v.v, "clone_newuts").val,
             clone_newipc |-> DeField(v.v, "clone_newipc").val,
             clone_newuser |-> DeField(v.v, "clone_newuser").val,
             rlimit_as |-> DeField(v.v, "rlimit_as").val,
             rlimit_cpu |-> DeField(v.v, "rlimit_cpu").val,
             rlimit_nofile |-> DeField(v.v, "rlimit_nofile").val,
             mounts |-> DeField(v.v, "mounts").val,
             uid |-> DeField(v.v, "uid").val,
             gid |-> DeField(v.v, "gid").val,
             time_limit |-> DeField(v.v, "time_limit").val])

\* serde_json::to_string(&config) and serde_json::from_str::<JailConfig>(text)
ToJson(c) == SerConfig(c)
FromJson(text) ==
    LET r == ParseText(text) IN
    IF r.ok THEN DeConfig(r.val) ELSE De(FALSE, <<>>)

(* The round trip of tests/unit_tests.rs: a configuration is serialized  *)
(* and the text is parsed back; nothing is run.                           *)

\* the configuration of test_config_serialization
TestConfig ==
    [FullConfig EXCEPT
        !.rlimit_as = Some(1048576), !.rlimit_cpu = Some(10),
        !.rlimit_nofile = Some(64), !.time_limit = Some(30)]

\* strings with the characters that JSON escapes, and empty strings
QuotedArgs == <<BinSh, <<"-c">>, <<"echo", " ", Quote, "a", Backslash, "b", Quote>>, <<>>>>

\* configurations that vary what is absent, the strings and the mount flags
ConfigsText ==
    {[TestConfig EXCEPT
        !.name = n, !.hostname = o[1], !.chroot_dir = o[2], !.exec_args = a,
        !.rlimit_as = o[3], !.rlimit_cpu = o[3], !.rlimit_nofile = o[4],
        !.uid = o[5], !.gid = o[6], !.time_limit = o[4], !.mounts = m] :
        n \in {"test", ""},
        a \in {<<>>, <<BinSh>>, QuotedArgs},
        o \in {<<Some("test-host"), Some(TmpTest), Some(1048576), Some(64), Some(1000), Some(0)>>,
               <<None, None, None, None, None, None>>,
               <<Some(""), Some(<<>>), Some(0), None, None, Some(1000)>>,
               <<None, Some(<<Quote, "/", Backslash>>), None, Some(30), Some(0), None>>},
        m \in {<<>>, <<MountBin>>, <<MountProc, MountHosts>>, <<MountHosts, MountProc>>,
               <<[MountBin EXCEPT !.rw = TRUE], [MountProc EXCEPT !.is_bind = TRUE]>>}}

RoundTripConfigs == Configs \cup ConfigsText \cup {TestConfig}

InitRoundTrip ==
    /\ config \in RoundTripConfigs
    /\ env \in {h \in Hosts : h.uid = 0 /\ h.environ = <<>>}
    /\ ppc = "create_namespaces"
    /\ cpc = "none"
    /\ log = <<>>
    /\ parentNs = {}
    /\ childNs = {}
    /\ dirs = HostDirs
    /\ files = HostFiles
    /\ nonEmpty = HostFiles
    /\ mounted = <<>>
    /\ mountIdx = 1
    /\ root = HostRoot
    /\ cred = [uid |-> env.uid, gid |-> env.gid]
    /\ rlimits = [r \in Resources |-> InitialRlimit]
    /\ image = JailCode
    /\ elapsed = 0
    /\ childStatus = None
    /\ reported = None
    /\ result = "pending"
    /\ json = None
    /\ parsed = None

RunFrame == <<env, ppc, cpc, log, parentNs, childNs, dirs, files, nonEmpty, mounted,
              mountIdx, root, cred, rlimits, image, elapsed, childStatus, reported,
              result>>

\* let json = serde_json::to_string(&config).unwrap();
Serialize ==
    /\ json = None
    /\ json' = Some(ToJson(config))
    /\ UNCHANGED <<config, parsed, RunFrame>>

\* let deserialized: JailConfig = serde_json::from_str(&json)
Deserialize ==
    /\ IsSome(json)
    /\ parsed = None
    /\ parsed' = Some(FromJson(Unwrap(json)))
    /\ UNCHANGED <<config, json, RunFrame>>

NextRoundTrip ==
    \/ Serialize
    \/ Deserialize

SpecRoundTrip == InitRoundTrip /\ [][NextRoundTrip]_vars

-----------------------------------------------------------------------------
(* Properties *)

IsParentEv(e) == e.proc = "parent"
IsChildEv(e) == e.proc = "child"
IsOpen(e) == e.op = "open"
IsWrite(e) == e.op = "write"
IsMount(e) == e.op = "mount"

Failed(i) == log[i].proc = "child" /\ ~log[i].ok
Done(op) == \E i \in DOMAIN log : log[i].op = op /\ log[i].ok
DoneLimit(resource) ==
    \E i \in DOMAIN log :
        log[i].op = "setrlimit" /\ log[i].ok /\ log[i].arg.resource = resource

IsPrefix(s, t) == Len(s) <= Len(t) /\ \A i \in DOMAIN s : s[i] = t[i]

\* every stage the configuration asks for has succeeded
ConfiguredStagesDone ==
    /\ config.clone_newuser =>
          Len(SelectSeq(log, IsWrite)) = 3 /\ \A i \in DOMAIN log : IsWrite(log[i]) => log[i].ok
    /\ IsSome(config.hostname) => Done("sethostname")
    /\ IsSome(config.chroot_dir) =>
          Len(mounted) = Len(config.mounts) /\ Done("chroot") /\ Done("chdir")
    /\ IsSome(config.gid) => Done("setgid")
    /\ IsSome(config.uid) => Done("setuid")
    /\ IsSome(config.rlimit_as) => DoneLimit("RLIMIT_AS")
    /\ IsSome(config.rlimit_cpu) => DoneLimit("RLIMIT_CPU")
    /\ IsSome(config.rlimit_nofile) => DoneLimit("RLIMIT_NOFILE")

\* C1: fail-stop pipeline.  Once a call of the child has failed, the child
\* issues no further call, the target is never exec'd, and the child is
\* terminated with exit status 1; and a successful exec was preceded by the
\* success of every configured stage.
C1_FailStop ==
    /\ \A i \in DOMAIN log :
          Failed(i) =>
             /\ \A j \in DOMAIN log : j > i => ~IsChildEv(log[j])
             /\ image = JailCode
             /\ cpc \in {"zombie", "reaped"}
             /\ childStatus = Some(ExitFailure)
    /\ \A j \in DOMAIN log :
          (log[j].op = "execve" /\ log[j].ok) =>
             /\ \A i \in 1..(j - 1) : IsChildEv(log[i]) => log[i].ok
             /\ ConfiguredStagesDone

\* a mount failed after the earlier stages ran, and the child has been reaped
C1_Witness ==
    /\ cpc = "reaped"
    /\ \E i \in DOMAIN log : log[i].op = "mount" /\ Failed(i)
    /\ Done("sethostname")

\* the stage an operation of the child belongs to
StageRank(op) ==
    CASE op \in {"open", "write"} -> 1
      [] op = "sethostname" -> 2
      [] op \in {"create_dir_all", "File::create", "mount", "chroot", "chdir"} -> 3
      [] op \in {"setgid", "setuid", "setrlimit"} -> 4
      [] op = "execve" -> 5

OpsOf(evs) == [i \in DOMAIN evs |-> evs[i].op]

C3_EmptyExecRefused ==
    config.exec_bin = <<>> =>
        /\ log = <<>>
        /\ cpc = "none"
        /\ ppc = "returned" => result = "Err"

\* C4: a JailSpec whose confinement root does not exist is refused before
\* any namespace request, directory creation or mount, and the jail never
\* creates the missing root.
C4_MissingRootRefused ==
    (IsSome(config.chroot_dir)
        /\ ~Exists(HostDirs, HostFiles, Unwrap(config.chroot_dir))) =>
        /\ \A i \in DOMAIN log :
              log[i].op \notin {"unshare", "create_dir_all", "File::create", "mount"}
        /\ ~Exists(dirs, files, Unwrap(config.chroot_dir))
        /\ ppc = "returned" => result = "Err"

MappingOrder == <<"uid_map", "setgroups", "gid_map">>

FilesOf(evs) == [i \in DOMAIN evs |-> evs[i].arg.file]

PastMapping ==
    {"hostname", "filesystem", "mount", "chroot", "chdir", "setgid", "setuid",
     "rlimit_as", "rlimit_cpu", "rlimit_nofile", "exec", "running"}

\* C5: the identity-mapping files are opened and written in the order
\* uid_map, setgroups, gid_map, each at most once, a later one only after
\* the earlier writes succeeded; all three are written once the mapping
\* stage is passed; without a user namespace none is opened or written.
C5_MappingOrder ==
    LET opens == SelectSeq(log, IsOpen)
        writes == SelectSeq(log, IsWrite)
    IN  /\ IsPrefix(FilesOf(opens), MappingOrder)
        /\ IsPrefix(FilesOf(writes), MappingOrder)
        /\ \A i \in DOMAIN writes : i < Len(opens) => writes[i].ok
        /\ \A i \in DOMAIN opens : i < Len(opens) => opens[i].ok
        /\ Len(writes) <= Len(opens)
        /\ ~config.clone_newuser => opens = <<>>
        /\ (config.clone_newuser /\ cpc \in PastMapping) =>
              Len(writes) = 3 /\ writes[3].ok

\* all three writes have been made
C5_Witness ==
    /\ Len(SelectSeq(log, IsWrite)) = 3
    /\ cpc = "hostname"

\* C6: the maps written send inside-id 0 to the real uid and gid of the
\* invoking process, and the files written are those of the jailed process.
C6_MapsRealIds ==
    \A i \in DOMAIN log :
        IsWrite(log[i]) =>
            /\ log[i].arg.pid = Pids.child
            /\ log[i].arg.file = "uid_map" => log[i].arg.data = <<0, env.uid, 1>>
            /\ log[i].arg.file = "gid_map" => log[i].arg.data = <<0, env.gid, 1>>

\* C7: when the root switch is called, every entry of the mount list has
\* been mounted, in configuration order, on the target under the root; no
\* mount follows the root switch; after a failed mount the root is never
\* switched.
C7_MountsBeforeRootSwitch ==
    /\ \A j \in DOMAIN log :
          log[j].op = "chroot" =>
             LET ms == SelectSeq(SubSeq(log, 1, j - 1), IsMount) IN
             /\ Len(ms) = Len(config.mounts)
             /\ \A k \in DOMAIN ms :
                   /\ ms[k].ok
                   /\ ms[k].arg.src = config.mounts[k].src
                   /\ ms[k].arg.target = Unwrap(config.chroot_dir) \o config.mounts[k].dst
             /\ \A k \in DOMAIN log : k > j => ~IsMount(log[k])
    /\ (\E i \in DOMAIN log : IsMount(log[i]) /\ ~log[i].ok) =>
          /\ \A j \in DOMAIN log : log[j].op # "chroot"
          /\ root = HostRoot

\* the root has been switched after a mount list of two entries or more
C7_Witness ==
    /\ Done("chroot")
    /\ root # HostRoot
    /\ Len(config.mounts) >= 2

\* C8: with a time limit configured, the target never runs past the limit:
\* once the limit has elapsed the child is terminated, and what the parent
\* reports is a timeout.
C8_TimeLimitEnforced ==
    (IsSome(config.time_limit) /\ elapsed > Unwrap(config.time_limit)) =>
        /\ cpc # "running"
        /\ (ppc = "returned" /\ result = "Ok") => reported = Some([kind |-> "timeout"])

\* C9: when the image replacement fails, what Jail::run returns to its
\* caller is a failure, not a successful return.
C9_ExecFailureReported ==
    (ppc = "returned" /\ \E i \in DOMAIN log : log[i].op = "execve" /\ ~log[i].ok) =>
        result = "Err"

Ceiling(resource) ==
    CASE resource = "RLIMIT_AS" -> config.rlimit_as
      [] resource = "RLIMIT_CPU" -> config.rlimit_cpu
      [] resource = "RLIMIT_NOFILE" -> config.rlimit_nofile

\* C10: when the child reaches the exec, each resource with a configured
\* ceiling N has soft limit N and hard limit N, and each resource without
\* one has the limits the child started with.
C10_CeilingsSoftAndHard ==
    cpc \in {"exec", "running"} =>
        \A r \in Resources :
            rlimits[r] = IF IsSome(Ceiling(r))
                         THEN [soft |-> Unwrap(Ceiling(r)), hard |-> Unwrap(Ceiling(r))]
                         ELSE InitialRlimit

\* the child is about to exec with one ceiling below and one above the
\* limits it started with, and one resource left alone
C10_Witness ==
    /\ cpc = "exec"
    /\ config.rlimit_as = Some(2)
    /\ config.rlimit_cpu = Some(7)
    /\ config.rlimit_nofile = None

Before(j, op) == \E i \in 1..(j - 1) : log[i].op = op /\ log[i].ok

\* C11: the group identity is set before the user identity; after a failed
\* setgid the user identity is left as it was; a resource ceiling is applied
\* only after each configured identity change has succeeded, and before the
\* exec.
C11_GroupBeforeUser ==
    /\ \A j \in DOMAIN log :
          log[j].op = "setuid" =>
             /\ IsSome(config.gid) => Before(j, "setgid")
             /\ \A i \in DOMAIN log : log[i].op = "setgid" => i < j
    /\ (\E i \in DOMAIN log : log[i].op = "setgid" /\ ~log[i].ok) =>
          /\ \A j \in DOMAIN log : log[j].op # "setuid"
          /\ cred = [uid |-> env.uid, gid |-> env.gid]
    /\ \A j \in DOMAIN log :
          log[j].op = "setrlimit" =>
             /\ IsSome(config.gid) => Before(j, "setgid")
             /\ IsSome(config.uid) => Before(j, "setuid")
             /\ \A i \in DOMAIN log : log[i].op \in {"setgid", "setuid"} => i < j
             /\ \A i \in DOMAIN log : log[i].op = "execve" => j < i

\* both identities are dropped, a ceiling is applied, the exec is next
C11_Witness ==
    /\ cpc = "exec"
    /\ Done("setgid") /\ Done("setuid")
    /\ cred = [uid |-> 1000, gid |-> 1000]
    /\ DoneLimit("RLIMIT_CPU")

RECURSIVE Lexical(_, _)
\* the names of a path with "." dropped and ".." applied
Lexical(comps, acc) ==
    IF comps = <<>> THEN acc
    ELSE IF Head(comps) = "." THEN Lexical(Tail(comps), acc)
    ELSE IF Head(comps) = ".."
         THEN Lexical(Tail(comps),
                      IF acc = <<>> THEN acc ELSE SubSeq(acc, 1, Len(acc) - 1))
         ELSE Lexical(Tail(comps), Append(acc, Head(comps)))

\* path p names the directory base or something below it
Inside(base, p) ==
    IsPrefix(Lexical(Components(base), <<>>), Lexical(Components(p), <<>>))

\* C12: every path the jail creates and every target it mounts on lies
\* inside the confinement root, whatever the destination of the MountSpec.
C12_TargetsInsideRoot ==
    \A i \in DOMAIN log :
        /\ log[i].op = "mount" => Inside(Unwrap(config.chroot_dir), log[i].arg.target)
        /\ log[i].op \in {"create_dir_all", "File::create"} =>
              Inside(Unwrap(config.chroot_dir), log[i].arg)

Range(f) == {f[i] : i \in DOMAIN f}

\* C13: the environment handed to the target is the fixed three-entry list
\* PATH, HOME, USER whatever the environment of the invoker, and none of the
\* invoker's variables is in it.
C13_FixedEnvironment ==
    \A i \in DOMAIN log :
        log[i].op = "execve" =>
            /\ log[i].arg.env = <<"PATH=/bin:/usr/bin:/sbin:/usr/sbin", "HOME=/", "USER=jail">>
            /\ Range(env.environ) \cap Range(log[i].arg.env) = {}

\* the target runs although the invoker carried variables of its own
C13_Witness ==
    /\ cpc = "running"
    /\ Done("execve")
    /\ "SECRET=token" \in Range(env.environ)

IsWait(e) == e.op = "waitpid"
IsUnshare(e) == e.op = "unshare"

\* C14: the parent waits once, on the child it forked, and run returns in
\* the parent only after that wait; when run returns Ok the child has
\* terminated and been reaped and what is reported is the child's own
\* termination status: its exit code, or the signal that killed it.
C14_WaitReportsOutcome ==
    /\ Len(SelectSeq(log, IsWait)) <= 1
    /\ \A j \in DOMAIN log :
          IsWait(log[j]) =>
             /\ log[j].proc = "parent"
             /\ \E i \in 1..(j - 1) :
                   log[i].op = "fork" /\ log[i].ok /\ log[i].arg = log[j].arg
    /\ (ppc = "returned" /\ Done("fork")) => \E j \in DOMAIN log : IsWait(log[j])
    /\ (ppc = "returned" /\ result = "Ok") =>
          /\ cpc = "reaped"
          /\ IsSome(childStatus)
          /\ reported = childStatus
          /\ Unwrap(reported).kind \in {"exited", "signaled"}
    /\ ppc # "returned" => reported = None /\ result = "pending"

\* run has returned after a target that exited with code 0
C14_Witness ==
    /\ ppc = "returned" /\ result = "Ok"
    /\ image # JailCode
    /\ reported = Some([kind |-> "exited", code |-> 0])

\* the namespace kinds a configuration asks for
Requested ==
    {k \in {"pid", "net", "ns", "uts", "ipc", "user"} :
        CASE k = "pid" -> config.clone_newpid
          [] k = "net" -> config.clone_newnet
          [] k = "ns" -> config.clone_newns
          [] k = "uts" -> config.clone_newuts
          [] k = "ipc" -> config.clone_newipc
          [] k = "user" -> config.clone_newuser}

FailedCall(op) == \E i \in DOMAIN log : log[i].op = op /\ ~log[i].ok

\* C15: there is one namespace request, carrying exactly the requested
\* kinds; after a failed request nothing else is ever called, no child
\* exists and run returns an error; a failed fork and a failed wait make run
\* return an error as well.
C15_RequestFailureIsFatal ==
    /\ Len(SelectSeq(log, IsUnshare)) <= 1
    /\ \A i \in DOMAIN log : IsUnshare(log[i]) => log[i].arg = Requested
    /\ FailedCall("unshare") =>
          /\ Len(log) = 1
          /\ cpc = "none" /\ parentNs = {} /\ childNs = {}
          /\ ppc = "returned" /\ result = "Err"
    /\ FailedCall("fork") =>
          /\ cpc = "none"
          /\ ppc = "returned" /\ result = "Err"
    /\ FailedCall("waitpid") => ppc = "returned" /\ result = "Err"

\* a request for several kinds was refused and run has returned
C15_Witness ==
    /\ FailedCall("unshare")
    /\ Cardinality(Requested) >= 2
    /\ ppc = "returned"

\* C19: sethostname is called only with a hostname configured and inside a
\* new UTS namespace that was requested and created.
C19_HostnameOnlyInUts ==
    \A i \in DOMAIN log :
        log[i].op = "sethostname" =>
            /\ IsSome(config.hostname)
            /\ config.clone_newuts
            /\ "uts" \in childNs

FilesystemOps == {"create_dir_all", "File::create", "mount", "chroot", "chdir"}

\* C20: without a confinement root the filesystem stage does nothing: no
\* directory or file is created, nothing is mounted even with a mount list,
\* the root stays the host root, and the child goes on to the privilege drop.
C20_NoRootNoFilesystemStage ==
    ~IsSome(config.chroot_dir) =>
        /\ dirs = HostDirs /\ files = HostFiles /\ nonEmpty = HostFiles
        /\ mounted = <<>> /\ mountIdx = 1
        /\ root = HostRoot
        /\ \A i \in DOMAIN log : log[i].op \notin FilesystemOps
        /\ cpc \notin {"mount", "chroot", "chdir"}

\* the target runs under the host root although mounts were listed
C20_Witness ==
    /\ ~IsSome(config.chroot_dir)
    /\ config.mounts # <<>>
    /\ cpc = "running"

\* the stage a call of the child belongs to
StageOfOp(op) ==
    CASE op \in {"open", "write"} -> "mapping"
      [] op = "sethostname" -> "hostname"
      [] op \in FilesystemOps -> "filesystem"
      [] op \in {"setgid", "setuid", "setrlimit"} -> "privilege"
      [] op = "execve" -> "exec"

\* C16: what the child reports for a failure identifies the stage that
\* failed: the status it ends with after a failure in one stage is not the
\* status by which a failure of any other stage is reported.
C16_FailureNamesStage ==
    \A i \in DOMAIN log :
        Failed(i) =>
            \A s \in ChildStages \ {StageOfOp(log[i].op)} :
                childStatus # Some(FailureReport(s))

\* C18: when a mount is called its destination exists and is a regular file
\* if the source is a regular file, a directory otherwise; and no file that
\* held data before the run has lost it.
C18_DestinationPrepared ==
    /\ (log # <<>> /\ log[Len(log)].op = "mount") =>
          LET call == log[Len(log)].arg IN
          IF IsFile(dirs, files, call.src)
          THEN IsFile(dirs, files, call.target)
          ELSE IsDir(dirs, files, call.target)
    /\ HostFiles \subseteq nonEmpty

\* C17: a configuration that was serialized and then parsed back is read
\* without error and equals the original in every field: absent options,
\* namespace flags, ceilings, uid, gid, time limit, and the mounts in their
\* order with their flags.
C17_RoundTrip ==
    IsSome(parsed) => Unwrap(parsed) = De(TRUE, config)

\* a configuration with an absent option, an escaped string and two
\* different mounts has been through the round trip
C17_Witness ==
    /\ IsSome(parsed)
    /\ Unwrap(parsed).ok
    /\ config.hostname = None
    /\ config.exec_args = QuotedArgs
    /\ Len(config.mounts) = 2
    /\ config.mounts[1] # config.mounts[2]
    /\ config.mounts[1].src # config.mounts[1].dst

====
